---- MODULE Spec2Model ----
(***************************************************************************)
(* Process supervisor (AnubisV2/service_manager.py), credential store      *)
(* (Anubis/soul/session_manager.py) and the Telegram platform connector    *)
(* (AnubisV2/tools/telegram_tool.py), modelled as one state machine.       *)
(*                                                                         *)
(* The supervising program is single-threaded: every method of the Python  *)
(* classes is one atomic action.  The only concurrency is at the level of  *)
(* OS processes: a launched process may exit by itself at any moment       *)
(* (ProcExit), the wall clock may advance (Tick), and the whole program    *)
(* may be restarted over the same backing files (NewInstance).             *)
(***************************************************************************)
EXTENDS Integers, Sequences, FiniteSets, TLC

VARIABLES
    services,       \* ServiceManager.services : name -> Service
    processes,      \* ServiceManager.processes : name -> Popen handle (its pid)
    os,             \* the OS process table: pid -> [state, name, cmd]
    servicesFile,   \* services.json : NoFile or name -> saved fields
    platforms,      \* SessionManager.platforms : platform -> PlatformSession
    platformsFile,  \* platforms.json : NoFile or platform -> saved fields
    handlers,       \* AutoConnector.connection_handlers : platform -> handler
    conversations,  \* PersistentMemory.conversations : "platform:chat_id" -> messages
    memoryFile,     \* memory.json : NoFile or "platform:chat_id" -> messages
    clock,          \* datetime.now()
    last            \* the last call: [op, name, args, res, results, signals, done]

vars == <<services, processes, os, servicesFile, platforms, platformsFile, handlers,
          conversations, memoryFile, clock, last>>

supVars == <<services, processes, os, servicesFile>>
credVars == <<platforms, platformsFile>>
memVars == <<conversations, memoryFile>>

----------------------------------------------------------------------------
(* Bounds of the model *)

MaxPid == 2         \* number of processes spawned in one behaviour
MaxTime == 2        \* largest value of the clock

(* Values *)

NoPid == 0          \* pid: Optional[int] = None
NoTime == 0         \* started_at: Optional[str] = None
DefaultMaxRestarts == 5

Names == {"telegram_bot", "worker"}
Platforms == {"telegram", "discord"}

\* Shell commands a service is registered with: a long-running command that
\* exits on SIGTERM, one that traps (ignores) SIGTERM, and a string with an
\* embedded NUL byte, which subprocess.Popen refuses with ValueError.
Commands == {"sleep", "trap", "nul"}

\* (command, auto_restart) pairs a service is registered with
RegisterArgs == {<<"sleep", TRUE>>, <<"trap", FALSE>>, <<"nul", TRUE>>}
BotCommand == "bot"     \* f"{sys.executable} {self.bot_script_path}"

Launchable(cmd) == cmd # "nul"
IgnoresTerm(cmd) == cmd = "trap"

NoFile == [exists |-> FALSE]

EmptyMap == [x \in {} |-> 0]

\* dict.update / {**a, **b}: keys of b win
Update(a, b) ==
    [k \in (DOMAIN a) \cup (DOMAIN b) |-> IF k \in DOMAIN b THEN b[k] ELSE a[k]]

\* del d[k]
Remove(d, k) == [x \in (DOMAIN d) \ {k} |-> d[x]]

LogPath(name) == <<"logs", name>>

----------------------------------------------------------------------------
(* Results *)

Ok(pid, msg) == [success |-> TRUE, pid |-> pid, error |-> "", message |-> msg]
Err(e) == [success |-> FALSE, pid |-> NoPid, error |-> e, message |-> ""]
NoRes == [success |-> TRUE, pid |-> NoPid, error |-> "", message |-> ""]

Call(op, name, res) ==
    [op |-> op, name |-> name, args |-> << >>, res |-> res, results |-> EmptyMap,
     signals |-> << >>, done |-> TRUE]

----------------------------------------------------------------------------
(* The supervisor's state as one value, so that handlers compose *)

Sup == [services |-> services, processes |-> processes, os |-> os,
        file |-> servicesFile]

\* Service dataclass, with its defaults
Service(name, platform, command, auto_restart) ==
    [name |-> name, platform |-> platform, command |-> command,
     pid |-> NoPid, status |-> "stopped", started_at |-> NoTime,
     log_file |-> LogPath(name), auto_restart |-> auto_restart,
     restart_count |-> 0, max_restarts |-> DefaultMaxRestarts]

\* _save_services: the fields written for every service
SavedFields(svc) ==
    [name |-> svc.name, platform |-> svc.platform, command |-> svc.command,
     pid |-> svc.pid, started_at |-> svc.started_at,
     log_file |-> svc.log_file, auto_restart |-> svc.auto_restart]

SaveServices(svcs) ==
    [exists |-> TRUE, services |-> [n \in DOMAIN svcs |-> SavedFields(svcs[n])]]

\* _load_services: status and restart_count are reset, the rest is read back
LoadedService(d) ==
    [name |-> d.name, platform |-> d.platform, command |-> d.command,
     pid |-> d.pid, status |-> "stopped", started_at |-> d.started_at,
     log_file |-> d.log_file, auto_restart |-> d.auto_restart,
     restart_count |-> 0, max_restarts |-> DefaultMaxRestarts]

LoadServices(file) ==
    IF file.exists
    THEN [n \in DOMAIN file.services |-> LoadedService(file.services[n])]
    ELSE EmptyMap

----------------------------------------------------------------------------
(* OS processes *)

NextPid(o) == Cardinality(DOMAIN o) + 1

\* Popen(..., preexec_fn=os.setsid): a new process, leader of its own group
Spawn(o, name, cmd) ==
    [p \in (DOMAIN o) \cup {NextPid(o)} |->
        IF p \in DOMAIN o THEN o[p]
        ELSE [state |-> "alive", name |-> name, cmd |-> cmd]]

\* a pid whose process has been reaped names no process any more
Gone == [state |-> "gone", name |-> "", cmd |-> ""]

\* Popen.poll() / Popen.wait() on a process that has exited: the zombie is reaped
Reap(o, pid) ==
    IF o[pid].state = "zombie" THEN [o EXCEPT ![pid] = Gone] ELSE o

\* os.getpgid(pid) raises ProcessLookupError once the pid has been reaped
HasPgid(o, pid) == o[pid].state # "gone"

\* os.killpg(pgid, SIGTERM): a live process exits unless it ignores the signal
SigTerm(o, pid) ==
    IF o[pid].state = "alive" /\ ~IgnoresTerm(o[pid].cmd)
    THEN [o EXCEPT ![pid].state = "zombie"]
    ELSE o

\* a forced kill that the process could ignore like SIGTERM
SigKill_Ignorable(o, pid) == SigTerm(o, pid)

\* os.killpg(pgid, SIGKILL): cannot be ignored
SigKill(o, pid) ==
    IF o[pid].state = "alive"
    THEN [o EXCEPT ![pid].state = "zombie"]
    ELSE o

----------------------------------------------------------------------------
(* ServiceManager handlers as functions of the supervisor's state.          *)
(* Each returns [sup, res, signals, done]: the new state, the value         *)
(* returned, the signals sent to process groups, and whether the call      *)
(* returned at all (a blocking wait() on a process that never exits does   *)
(* not).                                                                   *)

Eff(S, res) == [sup |-> S, res |-> res, signals |-> << >>, done |-> TRUE]

\* create_service that keeps the restart count of a record it overwrites
\* and forgets the handle tracked for the name
CreateEff_Carries(S, name, platform, command, auto_restart) ==
    LET fresh == Service(name, platform, command, auto_restart)
        svc == IF name \in DOMAIN S.services
               THEN [fresh EXCEPT !.restart_count = S.services[name].restart_count + 1]
               ELSE fresh
        svcs == Update(S.services, [n \in {name} |-> svc])
    IN  Eff([S EXCEPT !.services = svcs, !.file = SaveServices(svcs),
                      !.processes = Remove(S.processes, name)], NoRes)

\* create_service
CreateEff(S, name, platform, command, auto_restart) ==
    LET svcs == Update(S.services,
                       [n \in {name} |-> Service(name, platform, command, auto_restart)])
    IN  Eff([S EXCEPT !.services = svcs, !.file = SaveServices(svcs)], NoRes)

\* start_service, lines 130-160: the try block that opens the log and spawns
Launch(S, name, now) ==
    LET polled == IF name \in DOMAIN S.processes
                  THEN Reap(S.os, S.processes[name]) ELSE S.os
        svc == S.services[name]
    IN  IF ~Launchable(svc.command)
        THEN Eff([S EXCEPT !.os = polled, !.services[name].status = "crashed"],
                 Err("launch failed"))
        ELSE
          LET pid == NextPid(polled)
              svcs == [S.services EXCEPT ![name].pid = pid,
                                         ![name].status = "running",
                                         ![name].started_at = now]
          IN  Eff([services |-> svcs,
                   processes |-> Update(S.processes, [n \in {name} |-> pid]),
                   os |-> Spawn(polled, name, svc.command),
                   file |-> SaveServices(svcs)],
                  Ok(pid, "started"))

\* start_service without its "already running" check
StartEff_Respawn(S, name, now) ==
    IF name \notin DOMAIN S.services
    THEN Eff(S, Err("not found"))
    ELSE Launch(S, name, now)

\* start_service that registers a name it does not know and launches it
StartEff_Autoregister(S, name, now) ==
    IF name \notin DOMAIN S.services
    THEN Launch(CreateEff(S, name, "unknown", "sleep", TRUE).sup, name, now)
    ELSE IF name \in DOMAIN S.processes /\ S.os[S.processes[name]].state = "alive"
    THEN Eff(S, Err("already running"))
    ELSE Launch(S, name, now)

\* start_service
StartEff(S, name, now) ==
    IF name \notin DOMAIN S.services
    THEN Eff(S, Err("not found"))
    ELSE IF name \in DOMAIN S.processes /\ S.os[S.processes[name]].state = "alive"
    THEN Eff(S, Err("already running"))
    ELSE Launch(S, name, now)

\* stop_service
StopEff(S, name) ==
    IF name \notin DOMAIN S.services
    THEN Eff(S, Err("not found"))
    ELSE IF name \notin DOMAIN S.processes
    THEN LET svcs == [S.services EXCEPT ![name].status = "stopped"]
         IN  Eff([S EXCEPT !.services = svcs, !.file = SaveServices(svcs)],
                 Ok(NoPid, "was not running"))
    ELSE
      LET pid == S.processes[name]
      IN  IF ~HasPgid(S.os, pid)
          THEN Eff(S, Err("no such process"))
          ELSE
            LET termed == SigTerm(S.os, pid)
                \* process.wait(timeout=5) raises TimeoutExpired
                timedOut == termed[pid].state = "alive"
                killed == IF timedOut THEN SigKill(termed, pid) ELSE termed
                svcs == [S.services EXCEPT ![name].status = "stopped",
                                           ![name].pid = NoPid]
                signals == <<<<"SIGTERM", pid>>>>
                           \o (IF timedOut THEN <<<<"SIGKILL", pid>>>> ELSE << >>)
            IN  IF killed[pid].state = "alive"
                THEN [sup |-> [S EXCEPT !.os = killed], res |-> Err("blocked"),
                      signals |-> signals, done |-> FALSE]
                ELSE [sup |-> [services |-> svcs,
                               processes |-> Remove(S.processes, name),
                               os |-> Reap(killed, pid),
                               file |-> SaveServices(svcs)],
                      res |-> Ok(NoPid, "stopped"),
                      signals |-> signals, done |-> TRUE]

\* restart_service that starts only when the stop step succeeded
RestartEff_StopGates(S, name, now) ==
    LET stopped == StopEff(S, name)
        started == StartEff(stopped.sup, name, now)
    IN  IF stopped.done /\ stopped.res.success
        THEN [started EXCEPT !.signals = stopped.signals \o @]
        ELSE stopped

\* restart_service
RestartEff(S, name, now) ==
    LET stopped == StopEff(S, name)
        started == StartEff(stopped.sup, name, now)
    IN  IF stopped.done
        THEN [started EXCEPT !.signals = stopped.signals \o @]
        ELSE stopped

\* get_service_status that trusts the record's pid: running when that pid
\* names a live process
StatusEff_FromPid(S, name) ==
    IF name \notin DOMAIN S.services
    THEN Eff(S, [exists |-> FALSE])
    ELSE
      LET pid == S.services[name].pid
          running == pid \in DOMAIN S.os /\ S.os[pid].state = "alive"
          tracked == name \in DOMAIN S.processes
          polled == IF tracked THEN Reap(S.os, S.processes[name]) ELSE S.os
          status == IF running THEN "running"
                    ELSE IF tracked THEN "crashed" ELSE "stopped"
          svc == [S.services[name] EXCEPT !.status = status]
      IN  Eff([S EXCEPT !.os = polled, !.services[name] = svc],
              [exists |-> TRUE, name |-> svc.name, platform |-> svc.platform,
               status |-> svc.status, pid |-> svc.pid,
               started_at |-> svc.started_at,
               restart_count |-> svc.restart_count, log_file |-> svc.log_file])

\* get_service_status
StatusEff(S, name) ==
    IF name \notin DOMAIN S.services
    THEN Eff(S, [exists |-> FALSE])
    ELSE
      LET tracked == name \in DOMAIN S.processes
          running == tracked /\ S.os[S.processes[name]].state = "alive"
          polled == IF tracked THEN Reap(S.os, S.processes[name]) ELSE S.os
          status == IF tracked THEN (IF running THEN "running" ELSE "crashed")
                    ELSE "stopped"
          svc == [S.services[name] EXCEPT !.status = status]
      IN  Eff([S EXCEPT !.os = polled, !.services[name] = svc],
              [exists |-> TRUE, name |-> svc.name, platform |-> svc.platform,
               status |-> svc.status, pid |-> svc.pid,
               started_at |-> svc.started_at,
               restart_count |-> svc.restart_count, log_file |-> svc.log_file])

\* all_lines[-lines:] : the last `lines` elements; -0 is 0, so lines = 0
\* gives the whole list
LastLines(all_lines, lines) ==
    IF lines = 0 \/ lines >= Len(all_lines) THEN all_lines
    ELSE SubSeq(all_lines, Len(all_lines) - lines + 1, Len(all_lines))

\* get_logs; log is the service's log file as found on disk: NoFile, or
\* the lines the launched processes have written so far
LogsEff(S, name, log, lines) ==
    IF name \notin DOMAIN S.services
    THEN Eff(S, [error |-> "not found", text |-> << >>])
    ELSE IF ~log.exists
    THEN Eff(S, [error |-> "no logs", text |-> << >>])
    ELSE Eff(S, [error |-> "", text |-> LastLines(log.lines, lines)])

\* delete_service that removes the record without stopping the process
DeleteEff_NoStop(S, name) ==
    IF name \in DOMAIN S.services
    THEN LET svcs == Remove(S.services, name)
         IN  Eff([S EXCEPT !.services = svcs, !.file = SaveServices(svcs)],
                 [deleted |-> TRUE])
    ELSE Eff(S, [deleted |-> FALSE])

\* delete_service
DeleteEff(S, name) ==
    LET stopped == IF name \in DOMAIN S.processes THEN StopEff(S, name) ELSE Eff(S, NoRes)
        T == stopped.sup
    IN  IF ~stopped.done THEN stopped
        ELSE IF name \in DOMAIN T.services
        THEN LET svcs == Remove(T.services, name)
             IN  [sup |-> [T EXCEPT !.services = svcs, !.file = SaveServices(svcs)],
                  res |-> [deleted |-> TRUE],
                  signals |-> stopped.signals, done |-> TRUE]
        ELSE [stopped EXCEPT !.res = [deleted |-> FALSE]]

\* the orders in which a dict with these keys can be iterated
Orders(keys) ==
    {f \in [1..Cardinality(keys) -> keys] :
        \A i, j \in DOMAIN f : i # j => f[i] # f[j]}

\* start_all: for name in self.services: results[name] = self.start_service(name)
RECURSIVE StartAllFrom(_, _, _, _, _)
StartAllFrom(S, ord, i, results, now) ==
    IF i > Len(ord) THEN Eff(S, results)
    ELSE LET e == StartEff(S, ord[i], now)
         IN  StartAllFrom(e.sup, ord, i + 1,
                          Update(results, [n \in {ord[i]} |-> e.res]), now)

\* start_all that gives up at the first service that fails to start
RECURSIVE StartAllAbortFrom(_, _, _, _, _)
StartAllAbortFrom(S, ord, i, results, now) ==
    IF i > Len(ord) THEN Eff(S, results)
    ELSE LET e == StartEff(S, ord[i], now)
             got == Update(results, [n \in {ord[i]} |-> e.res])
         IN  IF e.res.success
             THEN StartAllAbortFrom(e.sup, ord, i + 1, got, now)
             ELSE Eff(e.sup, got)

StartAllEff_Abort(S, ord, now) == StartAllAbortFrom(S, ord, 1, EmptyMap, now)

StartAllEff(S, ord, now) == StartAllFrom(S, ord, 1, EmptyMap, now)

\* stop_all: for name in list(self.processes.keys()): results[name] = self.stop_service(name)
RECURSIVE StopAllFrom(_, _, _, _, _)
StopAllFrom(S, ord, i, results, signals) ==
    IF i > Len(ord)
    THEN [sup |-> S, res |-> results, signals |-> signals, done |-> TRUE]
    ELSE LET e == StopEff(S, ord[i])
         IN  IF ~e.done
             THEN [sup |-> e.sup, res |-> results,
                   signals |-> signals \o e.signals, done |-> FALSE]
             ELSE StopAllFrom(e.sup, ord, i + 1,
                              Update(results, [n \in {ord[i]} |-> e.res]),
                              signals \o e.signals)

\* stop_all that skips the handles whose process is no longer alive
StopAllEff_LiveOnly(S, ord) ==
    StopAllFrom(S, SelectSeq(ord, LAMBDA n : S.os[S.processes[n]].state = "alive"),
                1, EmptyMap, << >>)

StopAllEff(S, ord) == StopAllFrom(S, ord, 1, EmptyMap, << >>)

----------------------------------------------------------------------------
(* The same handlers when services.json may be unwritable: w tells whether  *)
(* open(self.services_file, 'w') in _save_services succeeds.  A failed open *)
(* raises OSError and leaves the file as it was.                            *)

\* an exception that leaves the handler, in place of a returned value
Raised(e) == [success |-> FALSE, pid |-> NoPid, error |-> e, message |-> "",
              raised |-> TRUE]

\* _save_services
SaveServicesW(file, svcs, w) == IF w THEN SaveServices(svcs) ELSE file

\* create_service: the record is stored, then _save_services may raise
CreateEffW(S, name, platform, command, auto_restart, w) ==
    LET svcs == Update(S.services,
                       [n \in {name} |-> Service(name, platform, command, auto_restart)])
    IN  Eff([S EXCEPT !.services = svcs, !.file = SaveServicesW(S.file, svcs, w)],
            IF w THEN NoRes ELSE Raised("write failed"))

\* start_service: _save_services is inside the try block, after the process
\* was spawned and the record updated; the except branch marks it crashed
StartEffW(S, name, now, w) ==
    LET e == StartEff(S, name, now)
    IN  IF w \/ ~e.res.success THEN e
        ELSE Eff([e.sup EXCEPT !.services[name].status = "crashed", !.file = S.file],
                 Err("write failed"))

\* stop_service: with no handle _save_services is outside the try block and
\* raises; with a handle it is inside, after the process was killed, the
\* record updated and the handle dropped
StopEffW(S, name, w) ==
    LET e == StopEff(S, name)
    IN  IF w \/ ~e.done \/ ~e.res.success THEN e
        ELSE [e EXCEPT !.sup.file = S.file,
                       !.res = IF name \in DOMAIN S.processes
                               THEN Err("write failed") ELSE Raised("write failed")]

----------------------------------------------------------------------------
(* Credential store: SessionManager *)

Tokens == {"111:AAA", "BBB"}
Creds == {[token |-> t] : t \in Tokens}

\* every dict with keys among `keys` and values among `vals`
Dicts(keys, vals) == UNION {[ks -> vals] : ks \in SUBSET keys}

SettingsDicts == Dicts({"x"}, {"1", "2"})
MetaDicts == Dicts({"x", "y"}, {"1", "2"})

\* to_dict that leaves the metadata out
ToDict_NoMetadata(session) ==
    [platform |-> session.platform, credentials |-> session.credentials,
     created_at |-> session.created_at, last_used |-> session.last_used,
     is_active |-> session.is_active, settings |-> session.settings,
     metadata |-> EmptyMap]

\* PlatformSession.to_dict, then json.dump
ToDict(session) ==
    [platform |-> session.platform, credentials |-> session.credentials,
     created_at |-> session.created_at, last_used |-> session.last_used,
     is_active |-> session.is_active, settings |-> session.settings,
     metadata |-> session.metadata]

\* json.load, then PlatformSession.from_dict
FromDict(d) ==
    [platform |-> d.platform, credentials |-> d.credentials,
     created_at |-> d.created_at, last_used |-> d.last_used,
     is_active |-> d.is_active, settings |-> d.settings,
     metadata |-> d.metadata]

\* _save_platforms
SavePlatforms(ps) ==
    [exists |-> TRUE, platforms |-> [p \in DOMAIN ps |-> ToDict(ps[p])]]

\* _load_all (platform sessions)
LoadPlatforms(file) ==
    IF file.exists
    THEN [p \in DOMAIN file.platforms |-> FromDict(file.platforms[p])]
    ELSE EmptyMap

\* save_platform that replaces settings and metadata instead of merging them
SavePlatform_Replace(ps, platform, credentials, settings, metadata, now) ==
    LET session ==
          [platform |-> platform, credentials |-> credentials,
           created_at |-> IF platform \in DOMAIN ps THEN ps[platform].created_at ELSE now,
           last_used |-> now, is_active |-> TRUE,
           settings |-> settings, metadata |-> metadata]
    IN  [p \in (DOMAIN ps) \cup {platform} |-> IF p = platform THEN session ELSE ps[p]]

\* save_platform: the sessions afterwards
SavePlatform(ps, platform, credentials, settings, metadata, now) ==
    LET session ==
          IF platform \in DOMAIN ps
          THEN [ps[platform] EXCEPT
                  !.credentials = credentials,
                  !.last_used = now,
                  !.is_active = TRUE,
                  !.settings = IF settings # EmptyMap THEN Update(@, settings) ELSE @,
                  !.metadata = IF metadata # EmptyMap THEN Update(@, metadata) ELSE @]
          ELSE [platform |-> platform, credentials |-> credentials,
                created_at |-> now, last_used |-> now, is_active |-> TRUE,
                settings |-> settings, metadata |-> metadata]
    IN  Update(ps, [p \in {platform} |-> session])

\* has_platform
HasPlatform(ps, platform) == platform \in DOMAIN ps /\ ps[platform].is_active

\* list_platforms
ListPlatforms(ps) == {p \in DOMAIN ps : ps[p].is_active}

\* token.split(":")[0] if ":" in token else "unknown"
BotId(token) == IF token = "111:AAA" THEN "111" ELSE "unknown"

\* save_token: the metadata passed to save_platform
TokenMetadata(token, now) ==
    [bot_id |-> BotId(token), bot_name |-> <<"AnubisBot_", BotId(token)>>,
     bot_username |-> "None", setup_date |-> now]

(* AutoConnector *)

\* what a connection handler does when called: it returns True, returns
\* False, or raises an Exception
HandlerKinds == {"connects", "refuses", "raises"}

\* results[platform] for one active platform: the handler's return value,
\* False when it raised, None when no handler is registered
ConnectResult(hs, p) ==
    IF p \notin DOMAIN hs THEN "None"
    ELSE IF hs[p] = "connects" THEN "True"
    ELSE "False"

\* auto_connect_all: the loop over list_platforms(); calls is the sequence of
\* handler invocations <<platform, credentials passed>>
RECURSIVE AutoConnectFrom(_, _, _, _, _, _)
AutoConnectFrom(ps, hs, ord, i, results, calls) ==
    IF i > Len(ord) THEN [results |-> results, calls |-> calls]
    ELSE LET p == ord[i]
         IN  AutoConnectFrom(ps, hs, ord, i + 1,
                 Update(results, [x \in {p} |-> ConnectResult(hs, p)]),
                 IF p \in DOMAIN hs
                 THEN Append(calls, <<p, ps[p].credentials>>) ELSE calls)

\* auto_connect_all that lets a handler's exception end the loop
RECURSIVE AutoConnectAbortFrom(_, _, _, _, _, _)
AutoConnectAbortFrom(ps, hs, ord, i, results, calls) ==
    IF i > Len(ord) THEN [results |-> results, calls |-> calls]
    ELSE LET p == ord[i]
             called == IF p \in DOMAIN hs
                       THEN Append(calls, <<p, ps[p].credentials>>) ELSE calls
         IN  IF p \in DOMAIN hs /\ hs[p] = "raises"
             THEN [results |-> results, calls |-> called]
             ELSE AutoConnectAbortFrom(ps, hs, ord, i + 1,
                     Update(results, [x \in {p} |-> ConnectResult(hs, p)]), called)

AutoConnectEff_Abort(ps, hs, ord) ==
    AutoConnectAbortFrom(ps, hs, ord, 1, EmptyMap, << >>)

AutoConnectEff(ps, hs, ord) == AutoConnectFrom(ps, hs, ord, 1, EmptyMap, << >>)

----------------------------------------------------------------------------
Init ==
    /\ services = EmptyMap
    /\ processes = EmptyMap
    /\ os = EmptyMap
    /\ servicesFile = NoFile
    /\ platforms = EmptyMap
    /\ platformsFile = NoFile
    /\ handlers = EmptyMap
    /\ conversations = EmptyMap
    /\ memoryFile = NoFile
    /\ clock = 1
    /\ last = Call("init", "", NoRes)

\* the supervisor's state after a handler, and what it returned
Returns(e, op, name) ==
    /\ Cardinality(DOMAIN e.sup.os) <= MaxPid
    /\ services' = e.sup.services
    /\ processes' = e.sup.processes
    /\ os' = e.sup.os
    /\ servicesFile' = e.sup.file
    /\ last' = [op |-> op, name |-> name, args |-> << >>, res |-> e.res,
                results |-> EmptyMap, signals |-> e.signals, done |-> e.done]

ReturnsAll(e, op) ==
    /\ Cardinality(DOMAIN e.sup.os) <= MaxPid
    /\ services' = e.sup.services
    /\ processes' = e.sup.processes
    /\ os' = e.sup.os
    /\ servicesFile' = e.sup.file
    /\ last' = [op |-> op, name |-> "", args |-> << >>, res |-> NoRes,
                results |-> e.res, signals |-> e.signals, done |-> e.done]

(* Process supervisor *)

PlatformOf(name) == IF name = "telegram_bot" THEN "telegram" ELSE "discord"

Register(name, command, auto_restart) ==
    /\ last.done
    /\ Returns(CreateEff(Sup, name, PlatformOf(name), command, auto_restart),
               "register", name)
    /\ UNCHANGED <<credVars, handlers, memVars, clock>>

Start(name) ==
    /\ last.done
    /\ Returns(StartEff(Sup, name, clock), "start", name)
    /\ UNCHANGED <<credVars, handlers, memVars, clock>>

Stop(name) ==
    /\ last.done
    /\ Returns(StopEff(Sup, name), "stop", name)
    /\ UNCHANGED <<credVars, handlers, memVars, clock>>

Restart(name) ==
    /\ last.done
    /\ Returns(RestartEff(Sup, name, clock), "restart", name)
    /\ UNCHANGED <<credVars, handlers, memVars, clock>>

Status(name) ==
    /\ last.done
    /\ Returns(StatusEff(Sup, name), "status", name)
    /\ UNCHANGED <<credVars, handlers, memVars, clock>>

Delete(name) ==
    /\ last.done
    /\ Returns(DeleteEff(Sup, name), "delete", name)
    /\ UNCHANGED <<credVars, handlers, memVars, clock>>

\* log files as get_logs may find them, and the line counts asked for
LogFiles == {NoFile, [exists |-> TRUE, lines |-> <<"a", "b">>]}
LogLines == {0, 1}

Logs(name) ==
    /\ last.done
    /\ \E log \in LogFiles, lines \in LogLines :
          Returns(LogsEff(Sup, name, log, lines), "logs", name)
    /\ UNCHANGED <<credVars, handlers, memVars, clock>>

StartAll ==
    /\ last.done
    /\ \E ord \in Orders(DOMAIN services) :
          ReturnsAll(StartAllEff(Sup, ord, clock), "start_all")
    /\ UNCHANGED <<credVars, handlers, memVars, clock>>

StopAll ==
    /\ last.done
    /\ \E ord \in Orders(DOMAIN processes) :
          ReturnsAll(StopAllEff(Sup, ord), "stop_all")
    /\ UNCHANGED <<credVars, handlers, memVars, clock>>

(* Environment *)

\* a launched process exits by itself; it stays a zombie until its parent
\* polls it, and a process whose parent is gone is reaped by init at once
ProcExit(pid) ==
    /\ pid \in DOMAIN os
    /\ os[pid].state = "alive"
    /\ os' = IF \E n \in DOMAIN processes : processes[n] = pid
             THEN [os EXCEPT ![pid].state = "zombie"]
             ELSE [os EXCEPT ![pid] = Gone]
    /\ last' = [Call("env", "", NoRes) EXCEPT !.done = last.done]
    /\ UNCHANGED <<services, processes, servicesFile, credVars, handlers, memVars, clock>>

Tick ==
    /\ clock < MaxTime
    /\ clock' = clock + 1
    /\ last' = [Call("env", "", NoRes) EXCEPT !.done = last.done]
    /\ UNCHANGED <<supVars, credVars, handlers, memVars>>

\* The program ends and a new one is started over the same files
\* (ServiceManager.__init__, SessionManager.__init__).  Detached children
\* live on; exited children are reaped by init once their parent is gone.
NewInstance ==
    /\ services' = LoadServices(servicesFile)
    /\ processes' = EmptyMap
    /\ os' = [p \in DOMAIN os |-> Reap(os, p)[p]]
    /\ platforms' = LoadPlatforms(platformsFile)
    /\ handlers' = EmptyMap
    /\ last' = Call("new_instance", "", NoRes)
    /\ UNCHANGED <<servicesFile, platformsFile, memVars, clock>>

(* Credential store *)

SaveCredential(platform, credentials, settings, metadata) ==
    /\ last.done
    /\ platforms' = SavePlatform(platforms, platform, credentials, settings, metadata, clock)
    /\ platformsFile' = SavePlatforms(platforms')
    /\ last' = [Call("save_platform", platform, NoRes)
                   EXCEPT !.args = <<credentials, settings, metadata>>]
    /\ UNCHANGED <<supVars, handlers, memVars, clock>>

\* TelegramBotSetup.save_token
SaveToken(token) ==
    /\ last.done
    /\ platforms' = SavePlatform(platforms, "telegram", [token |-> token], EmptyMap,
                                 TokenMetadata(token, clock), clock)
    /\ platformsFile' = SavePlatforms(platforms')
    /\ last' = [Call("save_token", "telegram", NoRes) EXCEPT !.args = <<token>>]
    /\ UNCHANGED <<supVars, handlers, memVars, clock>>

\* deactivate_platform that drops the record
Deactivate_Purge(platform) ==
    /\ last.done
    /\ IF platform \in DOMAIN platforms
       THEN /\ platforms' = Remove(platforms, platform)
            /\ platformsFile' = SavePlatforms(platforms')
       ELSE UNCHANGED credVars
    /\ last' = Call("deactivate_platform", platform, NoRes)
    /\ UNCHANGED <<supVars, handlers, memVars, clock>>

\* deactivate_platform
Deactivate(platform) ==
    /\ last.done
    /\ IF platform \in DOMAIN platforms
       THEN /\ platforms' = [platforms EXCEPT ![platform].is_active = FALSE]
            /\ platformsFile' = SavePlatforms(platforms')
       ELSE UNCHANGED credVars
    /\ last' = Call("deactivate_platform", platform, NoRes)
    /\ UNCHANGED <<supVars, handlers, memVars, clock>>

\* delete_platform
DeletePlatform(platform) ==
    /\ last.done
    /\ IF platform \in DOMAIN platforms
       THEN /\ platforms' = Remove(platforms, platform)
            /\ platformsFile' = SavePlatforms(platforms')
       ELSE UNCHANGED credVars
    /\ last' = Call("delete_platform", platform, NoRes)
    /\ UNCHANGED <<supVars, handlers, memVars, clock>>

(* The handlers with a backing file that may be unwritable *)

ReturnsW(e, op, name, w) ==
    /\ Cardinality(DOMAIN e.sup.os) <= MaxPid
    /\ services' = e.sup.services
    /\ processes' = e.sup.processes
    /\ os' = e.sup.os
    /\ servicesFile' = e.sup.file
    /\ last' = [op |-> op, name |-> name, args |-> <<w>>, res |-> e.res,
                results |-> EmptyMap, signals |-> e.signals, done |-> e.done]

RegisterW(name, command, auto_restart, w) ==
    /\ last.done
    /\ ReturnsW(CreateEffW(Sup, name, PlatformOf(name), command, auto_restart, w),
                "register", name, w)
    /\ UNCHANGED <<credVars, handlers, memVars, clock>>

StartW(name, w) ==
    /\ last.done
    /\ ReturnsW(StartEffW(Sup, name, clock, w), "start", name, w)
    /\ UNCHANGED <<credVars, handlers, memVars, clock>>

StopW(name, w) ==
    /\ last.done
    /\ ReturnsW(StopEffW(Sup, name, w), "stop", name, w)
    /\ UNCHANGED <<credVars, handlers, memVars, clock>>

\* save_platform: the session is stored, then _save_platforms may raise
SaveCredentialW(platform, credentials, w) ==
    /\ last.done
    /\ platforms' = SavePlatform(platforms, platform, credentials, EmptyMap, EmptyMap, clock)
    /\ platformsFile' = IF w THEN SavePlatforms(platforms') ELSE platformsFile
    /\ last' = [Call("save_platform", platform,
                     IF w THEN NoRes ELSE Raised("write failed"))
                   EXCEPT !.args = <<w>>]
    /\ UNCHANGED <<supVars, handlers, memVars, clock>>

(* The writes of the backing files step by step, with readers in other    *)
(* processes.  _save_platforms and _save_services open the file with mode *)
(* 'w', which truncates it, and json.dump fills it before it is closed.   *)

\* a file that was opened for writing and not yet filled: json.load on it
\* raises, and the loaders then keep their empty dict
Truncated == [exists |-> TRUE, truncated |-> TRUE, services |-> EmptyMap,
              platforms |-> EmptyMap]

IsTruncated(file) == file.exists /\ "truncated" \in DOMAIN file

\* save_token up to open(self.sessions_file, 'w') in _save_platforms
SaveTokenOpen(token) ==
    /\ last.done
    /\ platforms' = SavePlatform(platforms, "telegram", [token |-> token], EmptyMap,
                                 TokenMetadata(token, clock), clock)
    /\ platformsFile' = Truncated
    /\ last' = [Call("save_token", "telegram", NoRes)
                   EXCEPT !.args = <<token>>, !.done = FALSE]
    /\ UNCHANGED <<supVars, handlers, memVars, clock>>

\* create_service up to open(self.services_file, 'w') in _save_services
RegisterOpen(name, command, auto_restart) ==
    /\ last.done
    /\ services' = Update(services,
                          [n \in {name} |-> Service(name, PlatformOf(name), command,
                                                    auto_restart)])
    /\ servicesFile' = Truncated
    /\ last' = [Call("register", name, NoRes) EXCEPT !.done = FALSE]
    /\ UNCHANGED <<processes, os, credVars, handlers, memVars, clock>>

\* json.dump and the end of the with block: the file is complete, the call returns
WriteClose ==
    /\ IsTruncated(platformsFile) \/ IsTruncated(servicesFile)
    /\ platformsFile' = IF IsTruncated(platformsFile)
                        THEN SavePlatforms(platforms) ELSE platformsFile
    /\ servicesFile' = IF IsTruncated(servicesFile)
                       THEN SaveServices(services) ELSE servicesFile
    /\ last' = [Call(IF IsTruncated(platformsFile) THEN "save_token" ELSE "register",
                     "", NoRes) EXCEPT !.done = TRUE]
    /\ UNCHANGED <<services, processes, os, platforms, handlers, memVars, clock>>

\* get_token of the generated bot script, in the bot's process: a new
\* SessionManager loads platforms.json and the token is looked up
GetToken ==
    /\ last' = [Call("get_token", "telegram",
                     [complete |-> ~IsTruncated(platformsFile),
                      token |-> LET ps == LoadPlatforms(platformsFile)
                                IN  IF "telegram" \in DOMAIN ps
                                    THEN ps["telegram"].credentials.token
                                    ELSE "None"])
                   EXCEPT !.done = last.done]
    /\ UNCHANGED <<supVars, credVars, handlers, memVars, clock>>

\* a ServiceManager built in another process loads services.json
LoadFromOtherProcess ==
    /\ last' = [Call("load_services", "",
                     [complete |-> ~IsTruncated(servicesFile),
                      names |-> DOMAIN LoadServices(servicesFile)])
                   EXCEPT !.done = last.done]
    /\ UNCHANGED <<supVars, credVars, handlers, memVars, clock>>

(* Loading a backing file that this program did not write: it may be      *)
(* missing, not JSON at all, or hold a record that is not an object.     *)

\* a JSON value in place of a record that is not an object: .get on it raises
BadRecord == [bad |-> TRUE]

IsBad(d) == "bad" \in DOMAIN d

\* the file is missing, is not JSON, or holds a record that cannot be read
BadFile(records, file) ==
    \/ ~file.exists
    \/ IsTruncated(file)
    \/ \E k \in DOMAIN file[records] : IsBad(file[records][k])

\* the for loop of _load_all / _load_services inside its try block: the
\* first record that raises ends the loop, the records before it stay
LoadedKeys(recs, ord) ==
    {ord[i] : i \in {j \in 1..Len(ord) : \A k \in 1..j : ~IsBad(recs[ord[k]])}}

\* the keys of the file's records, in the order json.load yields them
FileOrders(records, file) ==
    IF file.exists THEN Orders(DOMAIN file[records]) ELSE {<< >>}

\* _load_all (platform sessions) on any file
LoadPlatformsAny(file, ord) ==
    IF ~file.exists \/ IsTruncated(file) THEN EmptyMap
    ELSE [p \in LoadedKeys(file.platforms, ord) |-> FromDict(file.platforms[p])]

\* _load_services on any file
LoadServicesAny(file, ord) ==
    IF ~file.exists \/ IsTruncated(file) THEN EmptyMap
    ELSE [n \in LoadedKeys(file.services, ord) |-> LoadedService(file.services[n])]

\* somebody else replaces a record of platforms.json by a value that is not
\* an object, overwrites the file with text that is not JSON, or removes it
DamagePlatformsFile ==
    /\ platformsFile.exists
    /\ \/ \E p \in DOMAIN platformsFile.platforms :
             platformsFile' = [platformsFile EXCEPT !.platforms[p] = BadRecord]
       \/ platformsFile' = Truncated
       \/ platformsFile' = NoFile
    /\ last' = [Call("env", "", NoRes) EXCEPT !.done = last.done]
    /\ UNCHANGED <<supVars, platforms, handlers, memVars, clock>>

\* the same for services.json
DamageServicesFile ==
    /\ servicesFile.exists
    /\ \/ \E n \in DOMAIN servicesFile.services :
             servicesFile' = [servicesFile EXCEPT !.services[n] = BadRecord]
       \/ servicesFile' = Truncated
       \/ servicesFile' = NoFile
    /\ last' = [Call("env", "", NoRes) EXCEPT !.done = last.done]
    /\ UNCHANGED <<services, processes, os, credVars, handlers, memVars, clock>>

\* ServiceManager.__init__ and SessionManager.__init__ over whatever files
\* are there; args tell which of the two files was bad
NewInstanceAny ==
    /\ \E ordS \in FileOrders("services", servicesFile) :
          services' = LoadServicesAny(servicesFile, ordS)
    /\ \E ordP \in FileOrders("platforms", platformsFile) :
          platforms' = LoadPlatformsAny(platformsFile, ordP)
    /\ processes' = EmptyMap
    /\ os' = [p \in DOMAIN os |-> Reap(os, p)[p]]
    /\ handlers' = EmptyMap
    /\ last' = [Call("new_instance", "", NoRes)
                   EXCEPT !.args = <<BadFile("services", servicesFile),
                                     BadFile("platforms", platformsFile)>>]
    /\ UNCHANGED <<servicesFile, platformsFile, memVars, clock>>

(* PersistentMemory: conversation history *)

\* messages kept per conversation, and the default length of a history
Retention == 50
DefaultLimit == 10

\* messages added to one conversation
MaxMsgs == 2

ChatIds == {"7"}
Roles == {"user", "assistant"}
Contents == {"hi"}

\* f"{platform}:{chat_id}"
ConvKey(platform, chat_id) == <<platform, chat_id>>

\* add_to_conversation on the conversations dict: append, keep the last 50
AddEff(convs, platform, chat_id, role, content, now) ==
    LET key == ConvKey(platform, chat_id)
        old == IF key \in DOMAIN convs THEN convs[key] ELSE << >>
        all == Append(old, [role |-> role, content |-> content, timestamp |-> now])
        kept == IF Len(all) > Retention THEN LastLines(all, Retention) ELSE all
    IN  Update(convs, [k \in {key} |-> kept])

\* _save_memory: memory.json rewritten from the conversations in memory
SaveMemory(convs) == [exists |-> TRUE, conversations |-> convs]

\* get_conversation_history
HistoryOf(convs, platform, chat_id, limit) ==
    LET key == ConvKey(platform, chat_id)
    IN  IF key \in DOMAIN convs THEN LastLines(convs[key], limit) ELSE << >>

AddToConversation(platform, chat_id, role, content) ==
    /\ last.done
    /\ Len(HistoryOf(conversations, platform, chat_id, 0)) < MaxMsgs
    /\ conversations' = AddEff(conversations, platform, chat_id, role, content, clock)
    /\ memoryFile' = SaveMemory(conversations')
    /\ last' = [Call("add_to_conversation", "", NoRes)
                   EXCEPT !.args = <<platform, chat_id, role, content>>]
    /\ UNCHANGED <<supVars, credVars, handlers, clock>>

GetConversationHistory(platform, chat_id, limit) ==
    /\ last.done
    /\ last' = [Call("get_conversation_history", "",
                     [history |-> HistoryOf(conversations, platform, chat_id, limit)])
                   EXCEPT !.args = <<platform, chat_id, limit>>]
    /\ UNCHANGED <<supVars, credVars, handlers, memVars, clock>>

\* PersistentMemory.__init__ over the same data directory: conversations
\* starts empty and _load_all reads sessions.json and config.json only
NewMemory ==
    /\ conversations' = EmptyMap
    /\ last' = Call("new_memory", "", NoRes)
    /\ UNCHANGED <<supVars, credVars, handlers, memoryFile, clock>>

(* get_logs over any log file and any line count *)

\* lines in a log file
MaxLogLen == 3

\* the log file as get_logs finds it: absent, or with up to MaxLogLen lines
AnyLogFiles ==
    {NoFile} \cup {[exists |-> TRUE, lines |-> l] :
                      l \in UNION {[1..k -> {"a", "b"}] : k \in 0..MaxLogLen}}

\* get_logs(name, lines); it changes nothing
GetLogs(name, log, lines) ==
    /\ last.done
    /\ last' = [Call("get_logs", name, LogsEff(Sup, name, log, lines).res)
                   EXCEPT !.args = <<log, lines>>]
    /\ UNCHANGED <<supVars, credVars, handlers, memVars, clock>>

(* AutoConnector *)

\* register_handler
RegisterHandler(platform, kind) ==
    /\ last.done
    /\ handlers' = Update(handlers, [p \in {platform} |-> kind])
    /\ last' = Call("register_handler", platform, NoRes)
    /\ UNCHANGED <<supVars, credVars, memVars, clock>>

\* auto_connect_all
AutoConnectAll ==
    /\ last.done
    /\ \E ord \in Orders(ListPlatforms(platforms)) :
          LET e == AutoConnectEff(platforms, handlers, ord)
          IN  last' = [Call("auto_connect_all", "", NoRes)
                          EXCEPT !.args = e.calls, !.results = e.results]
    /\ UNCHANGED <<supVars, credVars, handlers, memVars, clock>>

(* Platform connector: TelegramBotSetup *)

BotName == "telegram_bot"

\* setup(token): save the token, write the bot script, register and start the service
SetupEff(S, scriptOK, now) ==
    IF ~scriptOK
    THEN Eff(S, [success |-> FALSE, steps |-> <<"token saved">>,
                 errors |-> <<"failed to create script">>])
    ELSE
      LET created == CreateEff(S, BotName, "telegram", BotCommand, TRUE)
          started == StartEff(created.sup, BotName, now)
      IN  Eff(started.sup,
              [success |-> TRUE,
               steps |-> <<"token saved", "script created", "service registered">>
                         \o (IF started.res.success THEN <<"bot started">> ELSE << >>),
               errors |-> IF started.res.success THEN << >>
                          ELSE <<started.res.error>>])

Setup(token, scriptOK) ==
    /\ last.done
    /\ platforms' = SavePlatform(platforms, "telegram", [token |-> token], EmptyMap,
                                 TokenMetadata(token, clock), clock)
    /\ platformsFile' = SavePlatforms(platforms')
    /\ Returns(SetupEff(Sup, scriptOK, clock), "setup", BotName)
    /\ UNCHANGED <<handlers, memVars, clock>>

\* start_bot
StartBot ==
    /\ last.done
    /\ Returns(StartEff(Sup, BotName, clock), "start_bot", BotName)
    /\ UNCHANGED <<credVars, handlers, memVars, clock>>

\* stop_bot that also deactivates the platform's credential record
StopBot_Deactivates ==
    /\ last.done
    /\ Returns(StopEff(Sup, BotName), "stop_bot", BotName)
    /\ platforms' = [p \in DOMAIN platforms |-> [platforms[p] EXCEPT !.is_active = FALSE]]
    /\ platformsFile' = SavePlatforms(platforms')
    /\ UNCHANGED <<handlers, memVars, clock>>

\* stop_bot
StopBot ==
    /\ last.done
    /\ Returns(StopEff(Sup, BotName), "stop_bot", BotName)
    /\ UNCHANGED <<credVars, handlers, memVars, clock>>

\* get_status: the service's status plus has_token
GetStatus ==
    /\ last.done
    /\ LET e == StatusEff(Sup, BotName)
       IN  Returns([e EXCEPT !.res = [status |-> e.res,
                                      has_token |-> HasPlatform(platforms, "telegram")]],
                   "get_status", BotName)
    /\ UNCHANGED <<credVars, handlers, memVars, clock>>

\* setup(token) when the backing files may be unwritable: credOK tells
\* whether save_token returned, w whether services.json can be written.
\* Steps 1 and 3 return early; steps 4 and 5 only record their errors.
\* (Step 2, install_dependencies, touches no state of the model.)
SetupSteps(credOK, scriptOK, created, started) ==
    IF ~credOK THEN [success |-> FALSE, steps |-> << >>,
                     errors |-> <<"failed to save token">>]
    ELSE IF ~scriptOK THEN [success |-> FALSE, steps |-> <<"token saved">>,
                            errors |-> <<"failed to create script">>]
    ELSE [success |-> TRUE,
          steps |-> <<"token saved", "script created">>
                    \o (IF created.res.success THEN <<"service registered">> ELSE << >>)
                    \o (IF started.res.success THEN <<"bot started">> ELSE << >>),
          errors |-> (IF created.res.success THEN << >> ELSE <<"failed to register">>)
                     \o (IF started.res.success THEN << >> ELSE <<started.res.error>>)]

\* setup that reports failure when the bot could not be started
SetupEffW_StartGates(S, credOK, scriptOK, now, w) ==
    LET created == CreateEffW(S, BotName, "telegram", BotCommand, TRUE, w)
        started == StartEffW(created.sup, BotName, now, w)
        res == SetupSteps(credOK, scriptOK, created, started)
    IN  Eff(IF credOK /\ scriptOK THEN started.sup ELSE S,
            [res EXCEPT !.success = @ /\ started.res.success])

SetupEffW(S, credOK, scriptOK, now, w) ==
    LET created == CreateEffW(S, BotName, "telegram", BotCommand, TRUE, w)
        started == StartEffW(created.sup, BotName, now, w)
    IN  Eff(IF credOK /\ scriptOK THEN started.sup ELSE S,
            SetupSteps(credOK, scriptOK, created, started))

\* save_token raises when platforms.json cannot be written, after the session
\* was stored in memory
SetupW(token, credOK, scriptOK, w) ==
    /\ last.done
    /\ platforms' = SavePlatform(platforms, "telegram", [token |-> token], EmptyMap,
                                 TokenMetadata(token, clock), clock)
    /\ platformsFile' = IF credOK THEN SavePlatforms(platforms') ELSE platformsFile
    /\ LET e == SetupEffW(Sup, credOK, scriptOK, clock, w)
       IN  /\ Cardinality(DOMAIN e.sup.os) <= MaxPid
           /\ services' = e.sup.services
           /\ processes' = e.sup.processes
           /\ os' = e.sup.os
           /\ servicesFile' = e.sup.file
           /\ last' = [Call("setup", BotName, e.res)
                          EXCEPT !.args = <<token, credOK, scriptOK, w>>]
    /\ UNCHANGED <<handlers, memVars, clock>>

----------------------------------------------------------------------------
(* Specifications *)

\* the process supervisor on its own
NextSup ==
    \/ \E n \in Names, a \in RegisterArgs : Register(n, a[1], a[2])
    \/ \E n \in Names : Start(n)
    \/ \E n \in Names : Stop(n)
    \/ \E n \in Names : Restart(n)
    \/ \E n \in Names : Status(n)
    \/ \E n \in Names : Delete(n)
    \/ StartAll
    \/ StopAll
    \/ \E pid \in 1..MaxPid : ProcExit(pid)
    \/ NewInstance

SpecSup == Init /\ [][NextSup]_vars

\* the credential store on its own
NextCred ==
    \/ \E c \in Creds, s \in SettingsDicts, m \in MetaDicts :
          SaveCredential("discord", c, s, m)
    \/ \E t \in Tokens : SaveToken(t)
    \/ \E p \in Platforms : Deactivate(p)
    \/ \E p \in Platforms : DeletePlatform(p)
    \/ Tick
    \/ NewInstance

SpecCred == Init /\ [][NextCred]_vars

\* the credential store with the auto-connector on top of it
NextConn ==
    \/ \E p \in Platforms, c \in Creds : SaveCredential(p, c, EmptyMap, EmptyMap)
    \/ \E p \in Platforms : Deactivate(p)
    \/ \E p \in Platforms, k \in HandlerKinds : RegisterHandler(p, k)
    \/ AutoConnectAll
    \/ NewInstance

SpecConn == Init /\ [][NextConn]_vars

\* supervisor and credential store over files that may be unwritable
NextDisk ==
    \/ \E a \in RegisterArgs, w \in BOOLEAN : RegisterW(BotName, a[1], a[2], w)
    \/ \E w \in BOOLEAN : StartW(BotName, w)
    \/ \E w \in BOOLEAN : StopW(BotName, w)
    \/ \E c \in Creds, w \in BOOLEAN : SaveCredentialW("telegram", c, w)
    \/ \E pid \in 1..MaxPid : ProcExit(pid)

SpecDisk == Init /\ [][NextDisk]_vars

\* file writes step by step, with concurrent readers
NextTorn ==
    \/ \E t \in Tokens : SaveTokenOpen(t)
    \/ \E n \in Names, a \in RegisterArgs : RegisterOpen(n, a[1], a[2])
    \/ WriteClose
    \/ GetToken
    \/ LoadFromOtherProcess
    \/ Tick

SpecTorn == Init /\ [][NextTorn]_vars

\* the platform connector over files that may be unwritable
NextSetup ==
    \/ \E t \in Tokens, credOK, scriptOK, w \in BOOLEAN : SetupW(t, credOK, scriptOK, w)
    \/ StartBot
    \/ StopBot
    \/ Deactivate("telegram")
    \/ \E pid \in 1..MaxPid : ProcExit(pid)

SpecSetup == Init /\ [][NextSetup]_vars

\* both stores restarted over files that may have been damaged
NextLoad ==
    \/ \E p \in Platforms, c \in Creds : SaveCredential(p, c, EmptyMap, EmptyMap)
    \/ \E n \in Names : Register(n, "sleep", TRUE)
    \/ DamagePlatformsFile
    \/ DamageServicesFile
    \/ NewInstanceAny

SpecLoad == Init /\ [][NextLoad]_vars

\* the supervisor with a caller that keeps asking for the status of its
\* services: nothing in the program runs on its own, so the status query is
\* the only step that is taken again and again
NextAuto ==
    \/ \E n \in Names, a \in RegisterArgs : Register(n, a[1], a[2])
    \/ \E n \in Names : Start(n)
    \/ \E n \in Names : Status(n)
    \/ \E pid \in 1..MaxPid : ProcExit(pid)

SpecAuto == Init /\ [][NextAuto]_vars /\ WF_vars(\E n \in Names : Status(n))

\* the conversation memory across restarts
NextMem ==
    \/ \E p \in Platforms, c \in ChatIds, r \in Roles, m \in Contents :
          AddToConversation(p, c, r, m)
    \/ \E p \in Platforms, c \in ChatIds, l \in {1, DefaultLimit} :
          GetConversationHistory(p, c, l)
    \/ NewMemory
    \/ Tick

SpecMem == Init /\ [][NextMem]_vars

\* reading the logs of registered and unregistered services
NextLog ==
    \/ \E n \in Names, a \in RegisterArgs : Register(n, a[1], a[2])
    \/ \E n \in Names : Delete(n)
    \/ \E n \in Names, log \in AnyLogFiles, lines \in 0..(MaxLogLen + 1) :
          GetLogs(n, log, lines)

SpecLog == Init /\ [][NextLog]_vars

\* the platform connector with its credential record and its service
Next ==
    \/ \E t \in Tokens, ok \in BOOLEAN : Setup(t, ok)
    \/ StartBot
    \/ StopBot
    \/ GetStatus
    \/ \E a \in RegisterArgs : Register(BotName, a[1], a[2])
    \/ Start(BotName)
    \/ Stop(BotName)
    \/ Restart(BotName)
    \/ Status(BotName)
    \/ Delete(BotName)
    \/ Logs(BotName)
    \/ Deactivate("telegram")
    \/ \E pid \in 1..MaxPid : ProcExit(pid)
    \/ NewInstance

Spec == Init /\ [][Next]_vars

----------------------------------------------------------------------------
(* Claims about the process supervisor, checked under SpecSup *)

Registered(n) == n \in DOMAIN services
Tracked(n) == n \in DOMAIN processes
\* the handle tracked for n is that of a live process
Running(n) == Tracked(n) /\ os[processes[n]].state = "alive"

StepOf(op, n) == last'.op = op /\ last'.name = n

\* C1, as claimed: start(name) on a registered service whose tracked process is
\* alive returns success, spawns no process and leaves pid and handle unchanged.
C1_StartOnRunningSucceeds ==
    [][\A n \in Names :
          (StepOf("start", n) /\ Registered(n) /\ Running(n))
          => /\ last'.res.success
             /\ os' = os
             /\ processes' = processes
             /\ services'[n].pid = services[n].pid]_vars

\* C1, amended: start(name) on a registered service whose tracked process is
\* alive returns the failure "already running", spawns no process and leaves
\* the records, the handles, the process table and the services file unchanged.
C1_StartOnRunningIsRefused ==
    [][\A n \in Names :
          (StepOf("start", n) /\ Registered(n) /\ Running(n))
          => /\ ~last'.res.success
             /\ last'.res.error = "already running"
             /\ UNCHANGED supVars]_vars

C1_Witness ==
    /\ last.op = "start"
    /\ last.res.error = "already running"
    /\ Running(last.name)
    /\ services[last.name].pid = processes[last.name]

\* C2: after stop(name) on a registered service returns, no handle is tracked
\* for name, its status is stopped and its pid is null, in memory and in the
\* persisted record.
C2_StopAlwaysClears ==
    (last.op = "stop" /\ last.done /\ Registered(last.name))
    => /\ ~Tracked(last.name)
       /\ services[last.name].status = "stopped"
       /\ services[last.name].pid = NoPid
       /\ servicesFile.exists
       /\ servicesFile.services[last.name].pid = NoPid
       /\ LoadServices(servicesFile)[last.name].status = "stopped"

\* C3: stop(name) on a registered service that has no live process (never
\* started, already stopped, or exited by itself) returns success.
C3_StopWithoutLiveProcessSucceeds ==
    [][\A n \in Names :
          (StepOf("stop", n) /\ Registered(n) /\ ~Running(n))
          => (last'.done /\ last'.res.success)]_vars

\* C4: after a supervisor instance is created over an existing services file,
\* every loaded record has status stopped and pid null, no handle is tracked,
\* and the other persisted fields equal the saved values.
C4_LoadNormalises ==
    (last.op = "new_instance" /\ servicesFile.exists)
    => /\ processes = EmptyMap
       /\ DOMAIN services = DOMAIN servicesFile.services
       /\ \A n \in DOMAIN services :
            LET svc == services[n]
                d == servicesFile.services[n]
            IN  /\ svc.status = "stopped"
                /\ svc.pid = NoPid
                /\ svc.name = d.name
                /\ svc.platform = d.platform
                /\ svc.command = d.command
                /\ svc.started_at = d.started_at
                /\ svc.log_file = d.log_file
                /\ svc.auto_restart = d.auto_restart

\* C5: stop(name) on a running service whose process ignores the graceful
\* signal returns: it sends SIGTERM, then SIGKILL to the process group, the
\* process is gone and the service is stopped.
C5_ForcedStop ==
    [][\A n \in Names :
          (StepOf("stop", n) /\ Registered(n) /\ Running(n)
             /\ IgnoresTerm(os[processes[n]].cmd))
          => LET pid == processes[n]
             IN  /\ last'.done
                 /\ last'.res.success
                 /\ last'.signals = << <<"SIGTERM", pid>>, <<"SIGKILL", pid>> >>
                 /\ os'[pid].state = "gone"
                 /\ ~Tracked(n)'
                 /\ services'[n].status = "stopped"]_vars

C5_Witness ==
    /\ last.op = "stop"
    /\ last.res.success
    /\ Len(last.signals) = 2
    /\ last.signals[2][1] = "SIGKILL"
    /\ os[last.signals[2][2]].state = "gone"

\* C9, as claimed: the result map of startAll() and of stopAll() has exactly
\* one entry for each registered service name.
C9_BatchCoversRegistered ==
    (last.op \in {"start_all", "stop_all"})
    => DOMAIN last.results = DOMAIN services

\* C9, amended: the result map of startAll() has exactly one entry for each
\* registered service name; the result map of stopAll() has exactly one entry
\* for each name that had a tracked process handle when it was called.
C9_BatchCoverage ==
    [][/\ last'.op = "start_all"
          => (DOMAIN last'.results = DOMAIN services /\ DOMAIN services' = DOMAIN services)
       /\ last'.op = "stop_all"
          => DOMAIN last'.results = DOMAIN processes]_vars

C9_Witness ==
    /\ last.op = "stop_all"
    /\ Cardinality(DOMAIN services) = 2
    /\ Cardinality(DOMAIN last.results) = 1
    /\ \E n \in DOMAIN last.results : last.results[n].success

\* what a caller can observe of service n in supervisor state S, pids aside
ServiceView(S, n) ==
    [registered |-> n \in DOMAIN S.services,
     status |-> IF n \in DOMAIN S.services THEN S.services[n].status ELSE "",
     started_at |-> IF n \in DOMAIN S.services THEN S.services[n].started_at ELSE NoTime,
     has_pid |-> n \in DOMAIN S.services /\ S.services[n].pid # NoPid,
     saved_pid |-> /\ S.file.exists
                   /\ n \in DOMAIN S.file.services
                   /\ S.file.services[n].pid # NoPid,
     handle |-> IF n \in DOMAIN S.processes THEN S.os[S.processes[n]].state ELSE "none",
     pid_is_handle |-> /\ n \in DOMAIN S.services
                       /\ n \in DOMAIN S.processes
                       /\ S.services[n].pid = S.processes[n]]

ResultView(res) == [success |-> res.success, error |-> res.error]

\* a batch result in which service f is reported as failed
Failed(results, f) == f \in DOMAIN results /\ ~results[f].success

\* C10, as claimed: when a service fails in startAll or stopAll, every other
\* registered service ends in the state in which start/stop called on it alone
\* would have left it, and every reported result is the one that call returns.
C10_BatchIsolationAllRegistered ==
    [][\A f \in Names :
          /\ (last'.op = "start_all" /\ Failed(last'.results, f))
             => \A n \in (DOMAIN services) \ {f} :
                  LET alone == StartEff(Sup, n, clock)
                  IN  /\ ServiceView(Sup', n) = ServiceView(alone.sup, n)
                      /\ n \in DOMAIN last'.results
                           => ResultView(last'.results[n]) = ResultView(alone.res)
          /\ (last'.op = "stop_all" /\ Failed(last'.results, f))
             => \A n \in (DOMAIN services) \ {f} :
                  LET alone == StopEff(Sup, n)
                  IN  /\ ServiceView(Sup', n) = ServiceView(alone.sup, n)
                      /\ n \in DOMAIN last'.results
                           => ResultView(last'.results[n]) = ResultView(alone.res)]_vars

\* C10, amended: in startAll every registered service, and in stopAll every
\* service with a tracked handle, ends in the state in which start/stop called
\* on it alone would have left it and gets the result that call would have
\* returned, so a failing service is reported as a failure and aborts nothing.
C10_BatchIsolation ==
    [][/\ last'.op = "start_all"
          => \A n \in DOMAIN services :
               LET alone == StartEff(Sup, n, clock)
               IN  /\ n \in DOMAIN last'.results
                   /\ ResultView(last'.results[n]) = ResultView(alone.res)
                   /\ ServiceView(Sup', n) = ServiceView(alone.sup, n)
       /\ last'.op = "stop_all"
          => \A n \in DOMAIN processes :
               LET alone == StopEff(Sup, n)
               IN  /\ n \in DOMAIN last'.results
                   /\ ResultView(last'.results[n]) = ResultView(alone.res)
                   /\ ServiceView(Sup', n) = ServiceView(alone.sup, n)]_vars

\* a batch in which one service failed and another one succeeded
C10_Witness ==
    /\ last.op \in {"start_all", "stop_all"}
    /\ \E n, m \in DOMAIN last.results :
         /\ ~last.results[n].success
         /\ last.results[m].success
         /\ services[m].status = (IF last.op = "start_all" THEN "running" ELSE "stopped")

\* C12: restart(name) on a registered service with a launchable command
\* returns success with the service running on a process that did not exist
\* before (handle and pid differ from the old ones, the old process is not
\* alive), also when its stop step fails.
C12_RestartSpawnsNew ==
    [][\A n \in Names :
          (StepOf("restart", n) /\ Registered(n) /\ Launchable(services[n].command))
          => /\ last'.done
             /\ last'.res.success
             /\ Running(n)'
             /\ services'[n].status = "running"
             /\ services'[n].pid = processes'[n]
             /\ last'.res.pid = processes'[n]
             /\ processes'[n] \notin DOMAIN os
             /\ services'[n].pid # services[n].pid
             /\ Tracked(n) => /\ processes'[n] # processes[n]
                              /\ os'[processes[n]].state # "alive"]_vars

\* restart has stopped a live process and started another one
C12_Witness ==
    /\ last.op = "restart"
    /\ last.res.success
    /\ Len(last.signals) >= 1
    /\ os[last.signals[1][2]].state = "gone"
    /\ Running(last.name)
    /\ processes[last.name] # last.signals[1][2]
    /\ services[last.name].pid = processes[last.name]

\* C13: a start(name) that fails to launch returns a failure carrying the
\* error and leaves the record's status crashed, and a status(name) that
\* follows it reports crashed.
C13_LaunchFailureReportedCrashed ==
    [][\A n \in Names :
          /\ (StepOf("start", n) /\ Registered(n) /\ ~Running(n)
                /\ ~Launchable(services[n].command))
             => /\ last'.done
                /\ ~last'.res.success
                /\ last'.res.error = "launch failed"
                /\ services'[n].status = "crashed"
          /\ (last.op = "start" /\ last.name = n /\ last.res.error = "launch failed"
                /\ StepOf("status", n))
             => last'.res.status = "crashed"]_vars

\* C14: status(name) on a registered service reports running exactly when a
\* handle is tracked and its process is alive, crashed when a handle is
\* tracked and its process has terminated, and stopped when no handle is
\* tracked, whatever pid the record holds; the record takes that status.
C14_StatusFromHandle ==
    [][\A n \in Names :
          (StepOf("status", n) /\ Registered(n))
          => /\ last'.res.exists
             /\ (last'.res.status = "running") <=> Running(n)
             /\ (Tracked(n) /\ ~Running(n)) => last'.res.status = "crashed"
             /\ ~Tracked(n) => last'.res.status = "stopped"
             /\ services'[n].status = last'.res.status
             /\ last'.res.pid = services[n].pid]_vars

\* a record loaded with the pid of a process that is still alive, and no
\* handle: status reports stopped
C14_Witness ==
    /\ last.op = "status"
    /\ last.res.exists
    /\ last.res.status = "stopped"
    /\ ~Tracked(last.name)
    /\ last.res.pid \in DOMAIN os
    /\ os[last.res.pid].state = "alive"

\* the processes this supervisor run launched for n that are alive: a run
\* reaches its processes through its handles only
LiveLaunched(S, n) ==
    {p \in DOMAIN S.os :
        /\ S.os[p].state = "alive"
        /\ S.os[p].name = n
        /\ \E m \in DOMAIN S.processes : S.processes[m] = p}

\* C16: after delete(name) on a registered service returns, the service is
\* absent from the in-memory and the persisted records, and every process
\* this supervisor launched for it that was alive has been stopped.
C16_DeleteStopsAndRemoves ==
    [][\A n \in Names :
          (StepOf("delete", n) /\ Registered(n))
          => /\ last'.done
             /\ last'.res.deleted
             /\ ~Registered(n)'
             /\ servicesFile'.exists
             /\ n \notin DOMAIN servicesFile'.services
             /\ n \notin DOMAIN LoadServices(servicesFile')
             /\ \A p \in LiveLaunched(Sup, n) : os'[p].state = "gone"
             /\ LiveLaunched(Sup', n) = {}]_vars

\* delete has killed the live process of the service it removed
C16_Witness ==
    /\ last.op = "delete"
    /\ last.res.deleted
    /\ ~Registered(last.name)
    /\ Len(last.signals) >= 1
    /\ os[last.signals[1][2]].state = "gone"
    /\ ~Tracked(last.name)

\* C22: register(name, command, autoRestart) spawns and signals no process
\* and leaves the tracked handles unchanged, and registering again with the
\* same arguments leaves the records and the services file as they are.
C22_RegisterIsPureAndIdempotent ==
    [][\A n \in Names :
          StepOf("register", n)
          => /\ os' = os
             /\ processes' = processes
             /\ last'.signals = << >>
             /\ DOMAIN services' = DOMAIN services \cup {n}
             /\ \A m \in DOMAIN services : m # n => services'[m] = services[m]
             /\ LET again == CreateEff(Sup', n, services'[n].platform,
                                       services'[n].command, services'[n].auto_restart)
                IN  /\ again.sup.services = services'
                    /\ again.sup.file = servicesFile'
                    /\ again.sup.processes = processes'
                    /\ again.sup.os = os']_vars

\* a service was registered again while its process runs
C22_Witness ==
    /\ last.op = "register"
    /\ Running(last.name)
    /\ services[last.name].status = "stopped"
    /\ Cardinality(DOMAIN services) = 2

\* the live processes that were launched for service n, by this supervisor
\* instance or by an earlier one
LiveFor(o, n) == {p \in DOMAIN o : o[p].state = "alive" /\ o[p].name = n}

\* C26: for every service name at most one process launched by start(name)
\* is alive at any time, also after the supervisor was restarted while a
\* detached process of the previous instance is still running.
C26_OneLiveProcessPerName ==
    \A n \in Names : Cardinality(LiveFor(os, n)) <= 1

\* C27: whenever stop(name) returns success, no process launched for that
\* name is alive any more, whichever supervisor instance launched it.
C27_StopSuccessMeansNoneAlive ==
    [][\A n \in Names :
          (StepOf("stop", n) /\ last'.res.success) => LiveFor(os', n) = {}]_vars

\* C28: every name with a tracked process handle is a registered service.
C28_HandlesAreRegistered ==
    \A n \in DOMAIN processes : Registered(n)

\* C29: whenever the handle tracked for a service is that of a live process,
\* the service's record carries that process's pid.
C29_RunningPidMatchesHandle ==
    \A n \in Names :
        Running(n) => (Registered(n) /\ services[n].pid = processes[n])

----------------------------------------------------------------------------
(* Claims about the credential store, checked under SpecCred *)

\* res is the shallow merge of old and upd, the keys of upd winning
IsMerge(old, upd, res) ==
    /\ DOMAIN res = (DOMAIN old) \cup (DOMAIN upd)
    /\ \A k \in DOMAIN upd : res[k] = upd[k]
    /\ \A k \in (DOMAIN old) \ (DOMAIN upd) : res[k] = old[k]

\* C6: a saveCredential on a platform that was saved before stores exactly the
\* new credentials, merges settings and metadata into the old ones with the
\* new keys winning, and every saveCredential leaves the record active.
C6_SaveMerges ==
    [][/\ (last'.op = "save_platform" /\ last'.name \in DOMAIN platforms)
            => LET old == platforms[last'.name]
                   new == platforms'[last'.name]
               IN  /\ new.credentials = last'.args[1]
                   /\ IsMerge(old.settings, last'.args[2], new.settings)
                   /\ IsMerge(old.metadata, last'.args[3], new.metadata)
       /\ (last'.op = "save_token" /\ "telegram" \in DOMAIN platforms)
            => LET old == platforms["telegram"]
                   new == platforms'["telegram"]
               IN  /\ new.credentials = [token |-> last'.args[1]]
                   /\ new.settings = old.settings
                   /\ IsMerge(old.metadata, TokenMetadata(last'.args[1], clock),
                              new.metadata)
       /\ last'.op \in {"save_platform", "save_token"}
            => /\ last'.name \in DOMAIN platforms'
               /\ platforms'[last'.name].is_active]_vars

\* a second save has merged a new metadata key into an older record
C6_Witness ==
    /\ last.op = "save_platform"
    /\ last.args = <<[token |-> "BBB"], [x |-> "2"], [y |-> "2"]>>
    /\ platforms["discord"].credentials = [token |-> "BBB"]
    /\ "discord" \in DOMAIN platforms
    /\ platforms["discord"].created_at < platforms["discord"].last_used
    /\ platforms["discord"].metadata = [x |-> "1", y |-> "2"]
    /\ platforms["discord"].settings = [x |-> "2"]
    /\ platforms["discord"].is_active

\* C19: after any sequence of completed saveCredential, deactivate and delete
\* calls, a store built from the backing file has exactly the in-memory
\* records: the same platforms with the same fields.
C19_StoreRoundTrip ==
    /\ LoadPlatforms(platformsFile) = platforms
    /\ platforms # EmptyMap => platformsFile.exists

\* a new store has loaded a deactivated record with settings and metadata
C19_Witness ==
    /\ last.op = "new_instance"
    /\ "discord" \in DOMAIN platforms
    /\ ~platforms["discord"].is_active
    /\ platforms["discord"].metadata = [x |-> "1", y |-> "2"]
    /\ platforms["discord"].settings = [x |-> "2"]
    /\ platforms["discord"].created_at < platforms["discord"].last_used
    /\ "telegram" \in DOMAIN platforms

\* C20: deactivate(platform) keeps the record with its credentials, settings
\* and metadata and only clears its active flag, so that hasActive is false
\* and listActivePlatforms omits it; listActivePlatforms is always the set of
\* platforms whose record is active; a record disappears only by delete.
C20_DeactivateIsSoftDelete ==
    [][/\ \A p \in Platforms :
            (StepOf("deactivate_platform", p) /\ p \in DOMAIN platforms)
            => /\ p \in DOMAIN platforms'
               /\ platforms'[p] = [platforms[p] EXCEPT !.is_active = FALSE]
               /\ ~HasPlatform(platforms', p)
               /\ p \notin ListPlatforms(platforms')
               /\ p \in DOMAIN LoadPlatforms(platformsFile')
       /\ ListPlatforms(platforms') =
            {p \in Platforms : p \in DOMAIN platforms' /\ platforms'[p].is_active}
       /\ \A p \in DOMAIN platforms :
            p \notin DOMAIN platforms' => StepOf("delete_platform", p)]_vars

\* an active record with metadata was deactivated while another stays listed
C20_Witness ==
    /\ last.op = "deactivate_platform"
    /\ last.name \in DOMAIN platforms
    /\ ~platforms[last.name].is_active
    /\ platforms[last.name].metadata # EmptyMap
    /\ platforms[last.name].credentials \in Creds
    /\ ListPlatforms(platforms) = Platforms \ {last.name}

----------------------------------------------------------------------------
(* Claims about the platform connector, checked under Spec *)

\* C7: after every setupPlatform call with a launchable command the credential
\* store holds the platform with active=true and status of the platform's
\* service reports running with a non-null pid, the pid of the tracked live
\* process.
C7_SetupLeavesRunning ==
    (last.op = "setup" /\ last.res.success)
    => LET st == StatusEff(Sup, BotName).res
       IN  /\ HasPlatform(platforms, "telegram")
           /\ st.exists
           /\ st.status = "running"
           /\ st.pid # NoPid
           /\ Running(BotName)
           /\ st.pid = processes[BotName]

\* the value each operation returns for a name that is not registered
NotFound(op, res) ==
    CASE op \in {"start", "stop", "restart"} -> ~res.success /\ res.error = "not found"
      [] op = "status" -> ~res.exists
      [] op = "logs" -> res.error = "not found"
      [] op = "delete" -> ~res.deleted

\* C15: start, stop, restart, status, tailLog and delete called with a name
\* that is not registered return their not-found value and leave the records,
\* the tracked handles, the processes and the services file unchanged.
C15_UnknownNameIsNotFound ==
    [][(last'.op \in {"start", "stop", "restart", "status", "logs", "delete"}
          /\ ~Registered(last'.name))
       => /\ last'.done
          /\ NotFound(last'.op, last'.res)
          /\ last'.signals = << >>
          /\ UNCHANGED supVars]_vars

\* stop on a name whose record was deleted while its stale handle stayed
C15_Witness ==
    /\ last.op = "stop"
    /\ ~Registered(last.name)
    /\ Tracked(last.name)
    /\ last.res.error = "not found"
    /\ servicesFile.exists

SupervisorOps ==
    {"register", "start", "stop", "restart", "status", "delete",
     "start_bot", "stop_bot", "get_status"}

\* C8: register, start, stop, restart, status and delete (and the connector's
\* start_bot, stop_bot, get_status built on them) leave every Credential
\* Record, in memory and in the credentials file, as it was.
C8_SupervisorKeepsCredentials ==
    [][last'.op \in SupervisorOps
       => (platforms' = platforms /\ platformsFile' = platformsFile)]_vars

\* stop_bot has stopped the running bot of a platform that was set up
C8_Witness ==
    /\ last.op = "stop_bot"
    /\ last.res.success
    /\ last.res.message = "stopped"
    /\ HasPlatform(platforms, "telegram")
    /\ services[BotName].status = "stopped"

----------------------------------------------------------------------------
(* Claims about the auto-connector, checked under SpecConn *)

\* the platforms auto_connect_all has a handler to call for
Connectable == {p \in DOMAIN platforms : platforms[p].is_active} \cap DOMAIN handlers

\* C11: autoConnectAll invokes the registered handler exactly once, with the
\* stored credentials, for every active platform that has a handler, and for
\* no other platform; a handler that raises yields false for its platform and
\* every active platform still gets its entry in the result map.
C11_AutoConnectIsolation ==
    [][last'.op = "auto_connect_all"
       => /\ \A p \in Connectable :
               /\ Cardinality({i \in DOMAIN last'.args : last'.args[i][1] = p}) = 1
               /\ \A i \in DOMAIN last'.args :
                    last'.args[i][1] = p => last'.args[i][2] = platforms[p].credentials
          /\ \A i \in DOMAIN last'.args : last'.args[i][1] \in Connectable
          /\ DOMAIN last'.results = {p \in DOMAIN platforms : platforms[p].is_active}
          /\ \A p \in Connectable :
               /\ handlers[p] = "raises" => last'.results[p] = "False"
               /\ handlers[p] = "connects" => last'.results[p] = "True"]_vars

\* one handler raised, the other platform was still connected
C11_Witness ==
    /\ last.op = "auto_connect_all"
    /\ Len(last.args) = 2
    /\ \E p, q \in DOMAIN last.results :
         /\ handlers[p] = "raises"
         /\ last.results[p] = "False"
         /\ handlers[q] = "connects"
         /\ last.results[q] = "True"

----------------------------------------------------------------------------
(* Claims about unwritable backing files, checked under SpecDisk and SpecSetup *)

\* the write of the last call failed
WriteFailed(call) == call.args = <<FALSE>>

\* C17: when the backing file cannot be written during register, start, stop
\* or saveCredential, the call reports a failure, the in-memory records and
\* handles are those the same call leaves when the write works (or the old
\* ones), and the same call repeated with writes working succeeds.
C17_WriteFailureIsRetryable ==
    [][/\ (last'.op \in {"register", "start", "stop", "save_platform"}
             /\ WriteFailed(last'))
          => ~last'.res.success
       /\ \A n \in Names :
            (StepOf("start", n) /\ WriteFailed(last') /\ Registered(n))
            => \/ <<services', processes'>> = <<services, processes>>
               \/ LET good == StartEffW(Sup, n, clock, TRUE).sup
                  IN  <<services', processes'>> = <<good.services, good.processes>>
       /\ \A n \in Names :
            (StepOf("stop", n) /\ WriteFailed(last') /\ Registered(n))
            => \/ <<services', processes'>> = <<services, processes>>
               \/ LET good == StopEffW(Sup, n, TRUE).sup
                  IN  <<services', processes'>> = <<good.services, good.processes>>
       /\ (WriteFailed(last) /\ last.res.error = "write failed"
             /\ last'.op = last.op /\ last'.name = last.name /\ ~WriteFailed(last'))
          => last'.res.success]_vars

----------------------------------------------------------------------------
(* Claims about concurrent readers of the backing files, checked under SpecTorn *)

\* C18: a reader in another process (the bot loading the credentials file, a
\* second supervisor loading the services file) never observes a file that
\* is empty or partly written; once a token was saved the bot always reads
\* the old or the new token.
C18_ReaderSeesWholeFile ==
    /\ last.op \in {"get_token", "load_services"} => last.res.complete
    /\ (last.op = "get_token" /\ "telegram" \in DOMAIN platforms
          /\ last.res.token = "None")
       => ~platformsFile.exists

----------------------------------------------------------------------------
(* Claims about loading damaged backing files, checked under SpecLoad *)

\* C23: a Credential Store or Process Supervisor constructed over a backing
\* file that is missing or cannot be parsed is empty: it holds no record taken
\* from the bad file.
C23_BadFileLoadsEmpty ==
    last.op = "new_instance"
    => /\ last.args[1] => services = EmptyMap
       /\ last.args[2] => platforms = EmptyMap

----------------------------------------------------------------------------
(* Claims about automatic restarts, checked under SpecAuto *)

\* C24: a service registered with auto_restart whose process has exited is
\* eventually running again (while a pid is left to run it under and unless
\* it is registered anew without auto_restart), whether or not anybody
\* starts it by hand.
C24_CrashedIsRestarted ==
    \A n \in Names :
        (/\ Registered(n) /\ services[n].auto_restart
         /\ Tracked(n) /\ ~Running(n)
         /\ Cardinality(DOMAIN os) < MaxPid)
        ~> (Running(n) \/ ~(Registered(n) /\ services[n].auto_restart))

----------------------------------------------------------------------------
(* Claims about the conversation memory, checked under SpecMem *)

\* C25: conversation history survives a restart: a new PersistentMemory over
\* the same directory returns for every conversation the history the previous
\* one returned, and an add after a restart keeps in memory.json every
\* message that was saved there before.
C25_HistorySurvivesRestart ==
    [][/\ last'.op = "new_memory"
          => \A p \in Platforms, c \in ChatIds :
                HistoryOf(conversations', p, c, DefaultLimit)
                = HistoryOf(conversations, p, c, DefaultLimit)
       /\ (last'.op = "add_to_conversation" /\ memoryFile.exists)
          => \A k \in DOMAIN memoryFile.conversations :
                /\ k \in DOMAIN memoryFile'.conversations
                /\ \A i \in 1..Len(memoryFile.conversations[k]) :
                      /\ i <= Len(memoryFile'.conversations[k])
                      /\ memoryFile'.conversations[k][i]
                         = memoryFile.conversations[k][i]]_vars

----------------------------------------------------------------------------
(* Claims about reading logs, checked under SpecLog *)

\* the last min(n, Len(l)) elements of l
LastMin(l, n) ==
    LET k == IF n < Len(l) THEN n ELSE Len(l)
    IN  SubSeq(l, Len(l) - k + 1, Len(l))

\* C30: get_logs(name, n) on a registered service whose log exists returns
\* exactly the last min(n, length) lines of the log, in order, for every
\* n >= 0 (none for n = 0); when the log does not exist it returns an
\* explanatory string.
C30_TailReturnsLastLines ==
    (last.op = "get_logs" /\ Registered(last.name))
    => IF last.args[1].exists
       THEN last.res.error = "" /\ last.res.text = LastMin(last.args[1].lines, last.args[2])
       ELSE last.res.error = "no logs"

====
